---- MODULE Spec2Model ----
(***************************************************************************)
(* toflite: the chopper gating-window computation (chopper.py) and the     *)
(* masked reading container (reading.py).                                  *)
(*                                                                         *)
(* Numbers.  The code computes in floating point; the model computes the   *)
(* same expressions exactly, in integers:                                  *)
(*   - an angle given by the caller is an integer number of degrees;       *)
(*   - a float angle held by the program (self.open, self.close,           *)
(*     self.phase, the radians of open_close_times) is a fixed-point       *)
(*     number counted in half degrees, so that widths * 0.5 is exact;      *)
(*     deg2rad and the division by omega = 2*pi*frequency cancel to        *)
(*     angle / 360 / frequency, which is what the model computes;          *)
(*   - a time is counted in TimeUnit = 1e6 / (720 * FreqLcm) microseconds, *)
(*     FreqLcm the least common multiple of the modelled frequencies, so   *)
(*     that angle * 1e6 / omega is the integer angle * FreqLcm / frequency.*)
(* Rounding of floats is not modelled.                                     *)
(***************************************************************************)
EXTENDS Integers, Sequences, FiniteSets, TLC

\* ---------------------------------------------------------------- bounds
MaxFreq == 2
MaxCutouts == 2
AngleStep == 90
PhaseStep == 45
MaxTimeLimit == 3
MaxNeutrons == 3
MaxValue == 3
MaxDim == 2

\* A full turn in degrees: the 2 * np.pi of the code, seen from the degrees
\* that np.deg2rad converts.
FullTurn == 360

\* ---------------------------------------------------------------- numbers
Max(a, b) == IF a >= b THEN a ELSE b
Min(a, b) == IF a <= b THEN a ELSE b

\* math.ceil(a / b) for b > 0
Ceil(a, b) == -((-a) \div b)

\* float(x) of a number of degrees: fixed point, in half degrees
AsFloat(x) == x + x

\* x * 0.5 of a float
Half(x) == x \div 2

\* a one-dimensional array given element by element, as a sequence
NdArray(f) == f \o <<>>

\* astype(float) of an array of degrees
AsFloatArray(a) == NdArray([i \in 1..Len(a) |-> AsFloat(a[i])])

RECURSIVE Gcd(_, _)
Gcd(a, b) == IF b = 0 THEN a ELSE Gcd(b, a % b)

RECURSIVE LcmUpTo(_)
LcmUpTo(n) == IF n <= 1 THEN 1 ELSE LET l == LcmUpTo(n - 1) IN (l * n) \div Gcd(l, n)

FreqLcm == LcmUpTo(MaxFreq)

\* ---------------------------------------------------------------- inputs
Clockwise == "Clockwise"
AntiClockwise == "AntiClockwise"
Directions == {Clockwise, AntiClockwise, "NotADirection"}

Frequencies == -1..MaxFreq
Angles == {-AngleStep, 0, AngleStep}
Phases == {-PhaseStep, 0, PhaseStep}

RECURSIVE ArraysOfLen(_)
ArraysOfLen(n) ==
    IF n = 0 THEN {<<>>}
    ELSE {Append(a, x) : a \in ArraysOfLen(n - 1), x \in Angles}

\* one-dimensional arrays of at most MaxCutouts angles
Arrays == UNION {ArraysOfLen(n) : n \in 0..MaxCutouts}

\* An argument of the constructor is a reference: 0 is None, 1 and 2 are the
\* two array objects of the call (so that the same object can be passed twice).
NoneRef == 0
Refs == {NoneRef, 1, 2}

\* The names of the two objects are arbitrary: a call is drawn once, with the
\* object named 1 the first one passed, and an object that is not passed empty.
FirstUse(args, r) ==
    IF \E i \in 1..Len(args) : args[i] = r
    THEN CHOOSE i \in 1..Len(args) : args[i] = r /\ \A j \in 1..(i - 1) : args[j] # r
    ELSE Len(args) + r
CanonicalRefs(args) == FirstUse(args, 1) < FirstUse(args, 2)
ArraysFor(args, r) ==
    IF \E i \in 1..Len(args) : args[i] = r THEN Arrays ELSE {<<>>}

\* one rotation of a 1 Hz chopper lasts AsFloat(FullTurn) * FreqLcm time units;
\* time limits are multiples of half of it
TimeLimitStep == Half(AsFloat(FullTurn)) * FreqLcm
TimeLimits == {j * TimeLimitStep : j \in -1..MaxTimeLimit}

\* ------------------------------------------------- Chopper.__init__ helpers
\* The outcomes of bool(x == y) as CPython and numpy compute it: a set, because
\* the truth value of an empty array and the comparison of arrays whose shapes
\* do not broadcast are False (with a warning) or an error, by numpy version.
T == "True"
F == "False"
R == "Raise"

\* numpy broadcasting of two one-dimensional arrays
Broadcastable(a, b) == Len(a) = Len(b) \/ Len(a) = 1 \/ Len(b) = 1
BroadcastLen(a, b) == IF Len(a) = 1 THEN Len(b) ELSE Len(a)
At(a, i) == IF Len(a) = 1 THEN a[1] ELSE a[i]

\* bool(arr) of a boolean array with n elements, all False when allFalse
TruthOfArray(n, allFalse) ==
    IF n = 1 THEN {IF allFalse THEN F ELSE T}
    ELSE IF n = 0 THEN {F, R}
    ELSE {R}

\* PyObject_RichCompareBool(x, y, Py_EQ) of two arguments given as references
\* into pool: identity first, then ndarray.__eq__ (elementwise) and bool().
RichCompareBool(x, y, pool) ==
    IF x = y THEN {T}
    ELSE IF x = NoneRef THEN TruthOfArray(Len(pool[y]), TRUE)
    ELSE IF y = NoneRef THEN TruthOfArray(Len(pool[x]), TRUE)
    ELSE LET a == pool[x]
             b == pool[y]
         IN  IF Broadcastable(a, b)
             THEN TruthOfArray(BroadcastLen(a, b),
                               \A i \in 1..BroadcastLen(a, b) : At(a, i) # At(b, i))
             ELSE {F, R}

\* t == u of two tuples, from index i on: the first pair of items that differ
\* decides; with none, the lengths decide.
RECURSIVE TupleEqFrom(_, _, _, _)
TupleEqFrom(t, u, i, pool) ==
    IF i > Min(Len(t), Len(u))
    THEN {IF Len(t) = Len(u) THEN T ELSE F}
    ELSE LET r == RichCompareBool(t[i], u[i], pool)
         IN  (r \ {T}) \cup (IF T \in r THEN TupleEqFrom(t, u, i + 1, pool) ELSE {})

\* t in cands: the candidates are compared in order
RECURSIVE TupleIn(_, _, _)
TupleIn(t, cands, pool) ==
    IF cands = <<>> THEN {F}
    ELSE LET r == TupleEqFrom(t, Head(cands), 1, pool)
         IN  (r \ {F}) \cup (IF F \in r THEN TupleIn(t, Tail(cands), pool) ELSE {})

\* tuple(x for x in (open, close, centers, widths) if x is not None)
GivenArgs(o, c, ce, w) == SelectSeq(<<o, c, ce, w>>, LAMBDA x : x # NoneRef)

\* the check of chopper.py:78-81: the outcomes of
\* "the given arguments are (open, close) or (centers, widths)"
CutoutCheck(o, c, ce, w, pool) ==
    TupleIn(GivenArgs(o, c, ce, w), << <<o, c>>, <<ce, w>> >>, pool)

\* centers - widths * 0.5 and centers + widths * 0.5, as float arrays
OpenFromCenters(centers, widths) ==
    NdArray([i \in 1..BroadcastLen(centers, widths) |->
        AsFloat(At(centers, i)) - Half(AsFloat(At(widths, i)))])
CloseFromCenters(centers, widths) ==
    NdArray([i \in 1..BroadcastLen(centers, widths) |->
        AsFloat(At(centers, i)) + Half(AsFloat(At(widths, i)))])

Ok == "ok"
ValueError == "ValueError"
Failed == [status |-> ValueError, open |-> <<>>, close |-> <<>>]

\* lines 77-92 of Chopper.__init__: the set of outcomes of the cutout part
CutoutOutcomes(o, c, ce, w, pool) ==
    LET chk == CutoutCheck(o, c, ce, w, pool)
    IN  (IF R \in chk \/ F \in chk THEN {Failed} ELSE {})
        \cup
        (IF T \notin chk THEN {}
         ELSE IF o = NoneRef
         THEN IF Broadcastable(pool[ce], pool[w])
              THEN {[status |-> Ok,
                     open |-> OpenFromCenters(pool[ce], pool[w]),
                     close |-> CloseFromCenters(pool[ce], pool[w])]}
              ELSE {Failed}
         ELSE {[status |-> Ok,
                open |-> AsFloatArray(pool[o]),
                close |-> AsFloatArray(pool[c])]})

\* what the claims need of a call's arguments: None, or the length of the array
ShapeOf(x, pool) == IF x = NoneRef THEN -1 ELSE Len(pool[x])

\* ... and the argument itself, of a call that gives centers and widths and
\* neither open nor close (an empty array for any other call)
GivenOnlyCenters(o, c, ce, w) ==
    o = NoneRef /\ c = NoneRef /\ ce # NoneRef /\ w # NoneRef
ArgOf(x, o, c, ce, w, pool) ==
    IF GivenOnlyCenters(o, c, ce, w) THEN pool[x] ELSE <<>>

\* ------------------------------------------------------------------- state
VARIABLES
    call,         \* the arguments of the constructor call, or NoCall
    cstatus,      \* "none" before the call, then "ok" or "ValueError"
    frequency,    \* Chopper.frequency
    direction,    \* Chopper.direction
    phase,        \* Chopper.phase (float)
    open,         \* Chopper.open (float array)
    close,        \* Chopper.close (float array)
    queried,      \* open_close_times has returned
    time_limit,   \* the argument of the last open_close_times call
    open_times,   \* its first result
    close_times,  \* its second result
    rstatus,            \* "none" before the reading is made, then "ok"
    values,             \* data.toa, the values of the reading's toa field
    blocked_by_me,      \* data.blocked_by_me
    blocked_by_others,  \* data.blocked_by_others
    result,             \* the outcome of the last call on the reading
    fstatus,      \* "none" before a ReadingField exists, then the outcome of
                  \* the last call: "ok" or "IndexError"
    rfield,       \* the ReadingField instance at hand
    derived       \* the instance at hand was returned by __getitem__

chopperVars == <<call, cstatus, frequency, direction, phase, open, close,
                 queried, time_limit, open_times, close_times>>

readingVars == <<rstatus, values, blocked_by_me, blocked_by_others, result>>

fieldVars == <<fstatus, rfield, derived>>

vars == <<chopperVars, readingVars, fieldVars>>

NoResult == [op |-> "none", status |-> "none", value |-> 0, visible |-> 0, blocked |-> 0]

NoCall == [frequency |-> 0, direction |-> "", shapes |-> <<>>,
           centers |-> <<>>, widths |-> <<>>]

\* ------------------------------------------------- Chopper.open_close_times
\* the Chopper object as a record
Chopper(f, d, ph, o, c) ==
    [frequency |-> f, direction |-> d, phase |-> ph, open |-> o, close |-> c]

Self == Chopper(frequency, direction, phase, open, close)

\* nrot of line 118; time_limit * 1e-6 * frequency rotations are
\* tl * frequency / (AsFloat(FullTurn) * FreqLcm) with tl in time units
Nrot(self, tl) == Max(Ceil(tl * self.frequency, AsFloat(FullTurn) * FreqLcm), 1)

\* mutant of RotationPhases: the phase applied against the direction of rotation
RotationPhasesWithDirection(self, tl) ==
    NdArray([r \in 1..(Nrot(self, tl) + 1) |->
        (r - 2) * AsFloat(FullTurn)
        + (IF self.direction = AntiClockwise THEN -self.phase ELSE self.phase)])

\* np.arange(-1, nrot) * 2 * np.pi + np.deg2rad(self.phase)
RotationPhases(self, tl) ==
    NdArray([r \in 1..(Nrot(self, tl) + 1) |-> (r - 2) * AsFloat(FullTurn) + self.phase])

\* arr[::-1]
Reversed(a) == NdArray([i \in 1..Len(a) |-> a[Len(a) + 1 - i]])

\* mutant of Mirrored: the mirror taken about 0 instead of the full turn
MirroredAboutZero(a) == NdArray([i \in 1..Len(a) |-> -a[i]])

\* 2 * np.pi - arr
Mirrored(a) == NdArray([i \in 1..Len(a) |-> AsFloat(FullTurn) - a[i]])

\* mutant of OpenAngles: mirrored and reversed, but open and close not exchanged
OpenAnglesNotExchanged(self) ==
    IF self.direction = AntiClockwise
    THEN NdArray([i \in 1..Len(self.open) |->
             AsFloat(FullTurn) - self.open[Len(self.open) + 1 - i]])
    ELSE self.open

\* the cutout angles after the direction handling of lines 125-133
OpenAngles(self) ==
    IF self.direction = AntiClockwise THEN Reversed(Mirrored(self.close))
    ELSE self.open
CloseAngles(self) ==
    IF self.direction = AntiClockwise THEN Reversed(Mirrored(self.open))
    ELSE self.close

\* mutant of Ravel: the grid flattened column by column (cutout slowest)
RavelColumnMajor(phases, angles) ==
    NdArray([i \in 1..(Len(phases) * Len(angles)) |->
        phases[((i - 1) % Len(phases)) + 1] + angles[((i - 1) \div Len(phases)) + 1]])

\* (phases + angles).ravel(): phases is a column, the grid is flattened row by row
Ravel(phases, angles) ==
    NdArray([i \in 1..(Len(phases) * Len(angles)) |->
        phases[((i - 1) \div Len(angles)) + 1] + angles[((i - 1) % Len(angles)) + 1]])

\* angle * 1.0e6 / self.omega, in time units
ToTime(self, angle) == angle * (FreqLcm \div self.frequency)

ToTimes(self, a) == NdArray([i \in 1..Len(a) |-> ToTime(self, a[i])])

\* the pair that open_close_times(tl) returns
OpenCloseTimes(self, tl) ==
    LET phases == RotationPhases(self, tl)
    IN  << ToTimes(self, Ravel(phases, OpenAngles(self))),
           ToTimes(self, Ravel(phases, CloseAngles(self))) >>

\* ----------------------------------------------------------------- actions
\* Chopper(frequency=f, phase=ph, direction=d, open=o, close=c, centers=ce,
\* widths=w), the array arguments being references into pool
Construct ==
    /\ cstatus = "none"
    /\ \E o, c, ce, w \in Refs :
         /\ CanonicalRefs(<<o, c, ce, w>>)
         /\ \E a \in ArraysFor(<<o, c, ce, w>>, 1), b \in ArraysFor(<<o, c, ce, w>>, 2) :
              LET pool == <<a, b>>
                  shapes == <<ShapeOf(o, pool), ShapeOf(c, pool),
                              ShapeOf(ce, pool), ShapeOf(w, pool)>>
                  outcomes == CutoutOutcomes(o, c, ce, w, pool)
              IN  \E f \in Frequencies, d \in Directions :
                    /\ call' = [frequency |-> f, direction |-> d, shapes |-> shapes,
                                centers |-> ArgOf(ce, o, c, ce, w, pool),
                                widths |-> ArgOf(w, o, c, ce, w, pool)]
                    /\ IF f <= 0 \/ d \notin {Clockwise, AntiClockwise}
                       THEN /\ cstatus' = ValueError
                            /\ UNCHANGED <<frequency, direction, phase, open, close>>
                       ELSE \E res \in outcomes :
                              IF res.status = Ok
                              THEN /\ cstatus' = Ok
                                   /\ frequency' = f
                                   /\ direction' = d
                                   /\ \E ph \in Phases : phase' = AsFloat(ph)
                                   /\ open' = res.open
                                   /\ close' = res.close
                              ELSE /\ cstatus' = ValueError
                                   /\ UNCHANGED <<frequency, direction, phase,
                                                  open, close>>
    /\ UNCHANGED <<queried, time_limit, open_times, close_times>>
    /\ UNCHANGED readingVars
    /\ UNCHANGED fieldVars

\* chopper.open_close_times(tl)
QueryTimes ==
    /\ cstatus = Ok
    /\ \E tl \in TimeLimits :
         LET res == OpenCloseTimes(Self, tl)
         IN  /\ time_limit' = tl
             /\ open_times' = res[1]
             /\ close_times' = res[2]
    /\ queried' = TRUE
    /\ UNCHANGED <<call, cstatus, frequency, direction, phase, open, close>>
    /\ UNCHANGED readingVars
    /\ UNCHANGED fieldVars

\* ------------------------------------------------------------ reading.py
\* mutant of MaskOr: only the component's own mask
MaskOnlyMe(me, others) == me

\* self.blocked_by_me | self.blocked_by_others
MaskOr(me, others) == NdArray([i \in 1..Len(me) |-> me[i] \/ others[i]])

\* ~mask
MaskNot(mask) == NdArray([i \in 1..Len(mask) |-> ~mask[i]])

\* vals[sel]: the values where the boolean array sel is true, in order
RECURSIVE BoolIndex(_, _)
BoolIndex(vals, sel) ==
    IF vals = <<>> THEN <<>>
    ELSE (IF Head(sel) THEN <<Head(vals)>> ELSE <<>>)
         \o BoolIndex(Tail(vals), Tail(sel))

\* the reading field as a record
ReadingField(v, me, others) ==
    [values |-> v, blocked_by_me |-> me, blocked_by_others |-> others]

\* ComponentReading.toa: the field over data.toa and the two masks of data
ToaField == ReadingField(values, blocked_by_me, blocked_by_others)

\* self.values[~mask] of min, max
Visible(field) ==
    BoolIndex(field.values,
              MaskNot(MaskOr(field.blocked_by_me, field.blocked_by_others)))

RECURSIVE ArrayMin(_)
ArrayMin(a) ==
    IF Len(a) = 1 THEN a[1] ELSE Min(Head(a), ArrayMin(Tail(a)))

RECURSIVE ArrayMax(_)
ArrayMax(a) ==
    IF Len(a) = 1 THEN a[1] ELSE Max(Head(a), ArrayMax(Tail(a)))

\* mutant of Reduction: an empty selection reduces to 0 instead of failing
ReductionWithDefault(op, a) ==
    [op |-> op, status |-> Ok,
     value |-> IF a = <<>> THEN 0
               ELSE IF op = "min" THEN ArrayMin(a) ELSE ArrayMax(a),
     visible |-> 0, blocked |-> 0]

\* arr.min() / arr.max(): numpy raises ValueError on an empty array
Reduction(op, a) ==
    IF a = <<>>
    THEN [op |-> op, status |-> ValueError, value |-> 0, visible |-> 0, blocked |-> 0]
    ELSE [op |-> op, status |-> Ok,
          value |-> IF op = "min" THEN ArrayMin(a) ELSE ArrayMax(a),
          visible |-> 0, blocked |-> 0]

\* ReadingField.min()
FieldMinResult(field) == Reduction("min", Visible(field))

\* ReadingField.max()
FieldMaxResult(field) == Reduction("max", Visible(field))

\* mask.sum() of a boolean array
RECURSIVE MaskSum(_)
MaskSum(mask) ==
    IF mask = <<>> THEN 0
    ELSE (IF Head(mask) THEN 1 ELSE 0) + MaskSum(Tail(mask))

\* ChopperReading._repr_stats
ReprStats(size, me, others) ==
    LET blocked == MaskSum(me) + MaskSum(others)
    IN  [op |-> "stats", status |-> Ok, value |-> 0,
         visible |-> size - blocked, blocked |-> blocked]

\* the reading of a component over a NeutronData of n neutrons
MakeReading ==
    /\ rstatus = "none"
    /\ \E n \in 0..MaxNeutrons :
         \E v \in [1..n -> 1..MaxValue], me \in [1..n -> BOOLEAN],
            others \in [1..n -> BOOLEAN] :
           /\ values' = NdArray(v)
           /\ blocked_by_me' = NdArray(me)
           /\ blocked_by_others' = NdArray(others)
    /\ rstatus' = Ok
    /\ UNCHANGED result
    /\ UNCHANGED chopperVars
    /\ UNCHANGED fieldVars

\* reading.toa.min()
FieldMin ==
    /\ rstatus = Ok
    /\ result' = FieldMinResult(ToaField)
    /\ UNCHANGED <<rstatus, values, blocked_by_me, blocked_by_others>>
    /\ UNCHANGED chopperVars
    /\ UNCHANGED fieldVars

\* reading.toa.max()
FieldMax ==
    /\ rstatus = Ok
    /\ result' = FieldMaxResult(ToaField)
    /\ UNCHANGED <<rstatus, values, blocked_by_me, blocked_by_others>>
    /\ UNCHANGED chopperVars
    /\ UNCHANGED fieldVars

\* reading._repr_stats()
Stats ==
    /\ rstatus = Ok
    /\ result' = ReprStats(Len(values), blocked_by_me, blocked_by_others)
    /\ UNCHANGED <<rstatus, values, blocked_by_me, blocked_by_others>>
    /\ UNCHANGED chopperVars
    /\ UNCHANGED fieldVars

\* ------------------------------------------- ReadingField and its arrays
\* An ndarray of up to two dimensions: its shape and its elements in row-major
\* order.  A shape <<>> is the numpy scalar that indexing a one-dimensional
\* array returns.
RECURSIVE Size(_)
Size(shape) == IF shape = <<>> THEN 1 ELSE Head(shape) * Size(Tail(shape))

Array(shape, flat) == [shape |-> shape, flat |-> flat]

\* the shapes of the arrays a field is made of: (neutrons) or (pulses, neutrons)
Shapes == {<<n>> : n \in 0..MaxDim} \cup {<<p, n>> : p, n \in 0..MaxDim}

\* the arrays drawn: the values number their positions, a mask is true at every
\* second position, from the first or from the second
ValuesOfShape(shape) == Array(shape, NdArray([i \in 1..Size(shape) |-> i]))
MaskOfShape(shape, from) ==
    Array(shape, NdArray([i \in 1..Size(shape) |-> (i + from) % 2 = 0]))

\* the keys drawn: integers, and slices lo:hi
IntKeys == {[kind |-> "int", lo |-> i, hi |-> 0] : i \in -(MaxDim + 1)..MaxDim}
SliceKeys == {[kind |-> "slice", lo |-> a, hi |-> b] : a, b \in 0..MaxDim}
Keys == IntKeys \cup SliceKeys

\* arr[key] raises IndexError: a scalar cannot be indexed, an integer must lie
\* in -n..n-1
IndexRaises(arr, key) ==
    \/ arr.shape = <<>>
    \/ /\ key.kind = "int"
       /\ (key.lo < -Head(arr.shape) \/ key.lo >= Head(arr.shape))

\* arr[key] along the first axis, for a key that does not raise
Index(arr, key) ==
    LET n == Head(arr.shape)
        rest == Tail(arr.shape)
        stride == Size(rest)
    IN  IF key.kind = "int"
        THEN LET j == IF key.lo < 0 THEN key.lo + n ELSE key.lo
             IN  Array(rest, SubSeq(arr.flat, j * stride + 1, (j + 1) * stride))
        ELSE LET start == Min(key.lo, n)
                 stop == Max(Min(key.hi, n), start)
             IN  Array(<<stop - start>> \o rest,
                       SubSeq(arr.flat, start * stride + 1, stop * stride))

\* a ReadingField instance
FieldInstance(name, unit, v, me, others) ==
    [name |-> name, unit |-> unit, values |-> v,
     blocked_by_me |-> me, blocked_by_others |-> others]

NoField == FieldInstance("", "", Array(<<>>, <<0>>), Array(<<>>, <<FALSE>>),
                         Array(<<>>, <<FALSE>>))

\* the fields of ComponentReading and their units
Accessors == {<<"toa", "us">>, <<"wavelength", "angstrom">>,
              <<"birth_time", "us">>, <<"speed", "m/s">>}

\* self[key]: the set of outcomes of ReadingField.__getitem__
GetItemResult(self, key) ==
    IF \/ IndexRaises(self.values, key)
       \/ IndexRaises(self.blocked_by_me, key)
       \/ IndexRaises(self.blocked_by_others, key)
    THEN [status |-> "IndexError", field |-> self]
    ELSE [status |-> Ok,
          field |-> FieldInstance(self.name, self.unit,
                                  Index(self.values, key),
                                  Index(self.blocked_by_me, key),
                                  Index(self.blocked_by_others, key))]

\* ReadingField(name=..., unit=..., values=v, blocked_by_me=me,
\* blocked_by_others=others): the dataclass stores what it is given
ConstructField ==
    /\ fstatus = "none"
    /\ \E sv, sm, so \in Shapes, fm, fo \in 0..1 :
         rfield' = FieldInstance("toa", "us", ValuesOfShape(sv),
                                MaskOfShape(sm, fm), MaskOfShape(so, fo))
    /\ fstatus' = Ok
    /\ derived' = FALSE
    /\ UNCHANGED <<chopperVars, readingVars>>

\* reading.toa, reading.wavelength, reading.birth_time, reading.speed: the
\* field over one array of the reading's data and the two masks of the data,
\* which have the shape of that array
AccessField ==
    /\ fstatus = "none"
    /\ \E acc \in Accessors, shape \in Shapes, fm, fo \in 0..1 :
         rfield' = FieldInstance(acc[1], acc[2], ValuesOfShape(shape),
                                MaskOfShape(shape, fm), MaskOfShape(shape, fo))
    /\ fstatus' = Ok
    /\ derived' = FALSE
    /\ UNCHANGED <<chopperVars, readingVars>>

\* rfield[key]
GetItem ==
    /\ fstatus # "none"
    /\ \E key \in Keys :
         LET res == GetItemResult(rfield, key)
         IN  /\ fstatus' = res.status
             /\ rfield' = res.field
             /\ derived' = (derived \/ res.status = Ok)
    /\ UNCHANGED <<chopperVars, readingVars>>

\* ------------------------------------------------------------------ specs
Init ==
    /\ call = NoCall
    /\ cstatus = "none"
    /\ frequency = 0
    /\ direction = ""
    /\ phase = 0
    /\ open = <<>>
    /\ close = <<>>
    /\ queried = FALSE
    /\ time_limit = 0
    /\ open_times = <<>>
    /\ close_times = <<>>
    /\ rstatus = "none"
    /\ values = <<>>
    /\ blocked_by_me = <<>>
    /\ blocked_by_others = <<>>
    /\ result = NoResult
    /\ fstatus = "none"
    /\ rfield = NoField
    /\ derived = FALSE

\* the life of a chopper
Next == Construct \/ QueryTimes

Spec == Init /\ [][Next]_vars

\* the life of a reading
NextReading == MakeReading \/ FieldMin \/ FieldMax \/ Stats

SpecReading == Init /\ [][NextReading]_vars

\* the life of a ReadingField instance and of the instances indexed out of it
NextField == ConstructField \/ AccessField \/ GetItem

SpecField == Init /\ [][NextField]_vars

\* ----------------------------------------------------------------- claims
\* the windows of a pair of results, as a set of (open time, close time)
WindowSet(ot, ct) == {<<ot[i], ct[i]>> : i \in 1..Min(Len(ot), Len(ct))}

\* every cutout is an interval open < close
CutoutsOrdered ==
    /\ Len(open) = Len(close)
    /\ \A i \in 1..Len(open) : open[i] < close[i]

\* C1: open_close_times returns two sequences of the same length,
\* (nrot + 1) * num_cutouts with nrot = max(ceil(time_limit * 1e-6 * frequency), 1),
\* for every constructed chopper and every time_limit; 2 * num_cutouts for
\* time_limit = 0.
C1_WindowCount ==
    queried =>
        LET nrot == Max(Ceil(time_limit * frequency, AsFloat(FullTurn) * FreqLcm), 1)
        IN  /\ Len(open_times) = Len(close_times)
            /\ Len(open_times) = (nrot + 1) * Len(open)
            /\ Len(close_times) = (nrot + 1) * Len(close)
            /\ time_limit = 0 => Len(open_times) = 2 * Len(open)

\* C2: when every cutout has open < close, every returned window has
\* close_times[i] > open_times[i], for both directions, any phase and time_limit.
C2_WindowsOrdered ==
    (queried /\ CutoutsOrdered) =>
        /\ Len(open_times) = Len(close_times)
        /\ \A i \in 1..Len(open_times) : close_times[i] > open_times[i]

\* two cutouts, anti-clockwise, with a phase: the mirrored and reversed windows
C2_Witness ==
    /\ queried
    /\ CutoutsOrdered
    /\ direction = AntiClockwise
    /\ Len(open) = 2
    /\ open[1] # open[2]
    /\ phase # 0
    /\ Len(open_times) >= 4

\* the transparency interval of cutout c in rotation k of the rotating chopper,
\* as (open time, close time): an anti-clockwise chopper presents the mirror
\* image of its cutouts
TransparencyInterval(k, c) ==
    LET lo == IF direction = AntiClockwise THEN -close[c] ELSE open[c]
        hi == IF direction = AntiClockwise THEN -open[c] ELSE close[c]
        at(angle) == ((k * AsFloat(FullTurn) + phase + angle) * FreqLcm) \div frequency
    IN  <<at(lo), at(hi)>>

\* C3: with open < close and time_limit >= 0, every transparency interval of the
\* rotating chopper (any cutout, any integer rotation) that overlaps
\* [0, time_limit] is among the returned windows.  Stated here for the intervals
\* that overlap it in more than a point.
C3_HorizonCovered ==
    (queried /\ CutoutsOrdered /\ time_limit >= 0) =>
        \A k \in -(MaxTimeLimit + 3)..(MaxTimeLimit + 3), c \in 1..Len(open) :
            LET w == TransparencyInterval(k, c)
            IN  (w[1] < time_limit /\ w[2] > 0) =>
                    w \in WindowSet(open_times, close_times)

\* the phase steps of C4, in degrees
PhaseDeltas == {-PhaseStep, PhaseStep, FullTurn + PhaseStep}

\* C4: a chopper that differs only by a phase larger by delta degrees returns as
\* many windows, each open and close time later by delta / 360 / frequency * 1e6
\* microseconds (delta * 2 * FreqLcm / frequency time units).
C4_PhaseShift ==
    queried =>
        \A delta \in PhaseDeltas :
            LET other == OpenCloseTimes(
                    Chopper(frequency, direction, phase + AsFloat(delta), open, close),
                    time_limit)
            IN  /\ Len(other[1]) = Len(open_times)
                /\ Len(other[2]) = Len(close_times)
                /\ \A i \in 1..Len(open_times) :
                     (other[1][i] - open_times[i]) * frequency = delta * 2 * FreqLcm
                /\ \A i \in 1..Len(close_times) :
                     (other[2][i] - close_times[i]) * frequency = delta * 2 * FreqLcm

\* an anti-clockwise chopper with two cutouts and several rotations
C4_Witness ==
    /\ queried
    /\ direction = AntiClockwise
    /\ frequency = MaxFreq
    /\ Len(open) = 2
    /\ Len(close) = 2
    /\ Len(open_times) > 4

\* one cutout, symmetric about 0 degrees, of positive width, and no phase
SymmetricCutout ==
    /\ cstatus = Ok
    /\ Len(open) = 1
    /\ Len(close) = 1
    /\ open[1] = -close[1]
    /\ open[1] < close[1]
    /\ phase = 0

\* the results of the chopper turning the other way
OtherDirection ==
    OpenCloseTimes(
        Chopper(frequency,
                IF direction = Clockwise THEN AntiClockwise ELSE Clockwise,
                phase, open, close),
        time_limit)

\* C5 as stated: for one symmetric cutout centred at 0 and phase 0, the
\* Clockwise and the AntiClockwise chopper return the same set of windows.
C5_SameWindowSet ==
    (queried /\ SymmetricCutout) =>
        WindowSet(open_times, close_times) = WindowSet(OtherDirection[1], OtherDirection[2])

\* C5 as amended: the AntiClockwise windows are the Clockwise windows one rotation
\* period (1e6 / frequency microseconds) later, index by index: the two sets share
\* the windows of rotations 0..nrot-1, the Clockwise set has one more a rotation
\* before them and the AntiClockwise set one more a rotation after them.
C5_ShiftedByOneRotation ==
    (queried /\ SymmetricCutout /\ direction = Clockwise) =>
        LET acw == OtherDirection
            n == Len(open_times)
        IN  /\ Len(acw[1]) = n
            /\ Len(acw[2]) = n
            /\ \A i \in 1..n :
                 /\ (acw[1][i] - open_times[i]) * frequency = AsFloat(FullTurn) * FreqLcm
                 /\ (acw[2][i] - close_times[i]) * frequency = AsFloat(FullTurn) * FreqLcm
            /\ \A i \in 1..(n - 1) :
                 /\ acw[1][i] = open_times[i + 1]
                 /\ acw[2][i] = close_times[i + 1]
            /\ <<open_times[1], close_times[1]>> \notin WindowSet(acw[1], acw[2])
            /\ <<acw[1][n], acw[2][n]>> \notin WindowSet(open_times, close_times)

\* a clockwise chopper with one symmetric cutout, over more than one rotation
C5_Witness ==
    /\ queried
    /\ SymmetricCutout
    /\ direction = Clockwise
    /\ Len(open_times) > 2

\* the cutout arguments of the call are one complete representation: open and
\* close without centers and widths, or centers and widths without open and close
CompleteRepresentation ==
    LET given == [i \in 1..4 |-> call.shapes[i] >= 0]
    IN  \/ (given[1] /\ given[2] /\ ~given[3] /\ ~given[4])
        \/ (~given[1] /\ ~given[2] /\ given[3] /\ given[4])

\* C6: construction fails, and produces no chopper, exactly when frequency <= 0,
\* or the direction is none of the two, or the cutouts are not given by exactly
\* one complete representation.  Stated here for the calls that pass no empty
\* array (the truth value of an empty array depends on the numpy version).
C6_ConstructionErrors ==
    (cstatus # "none" /\ \A i \in 1..4 : call.shapes[i] # 0) =>
        /\ (cstatus = ValueError) <=>
              \/ call.frequency <= 0
              \/ call.direction \notin {Clockwise, AntiClockwise}
              \/ ~CompleteRepresentation
        /\ (cstatus = ValueError) =>
              (frequency = 0 /\ direction = "" /\ open = <<>> /\ close = <<>>)

\* C7: every chopper that construction returns has as many open as close entries.
C7_OpenCloseSameLength ==
    (cstatus = Ok) => Len(open) = Len(close)
\* the entries of the reading that no mask blocks
UnblockedEntries ==
    {i \in 1..Len(values) : ~blocked_by_me[i] /\ ~blocked_by_others[i]}

\* C8: the summary counts a neutron once: blocked is the number of neutrons with
\* blocked_by_me or blocked_by_others, visible the total minus that number.
C8_SummaryCountsUnion ==
    (result.op = "stats") =>
        LET union == {i \in 1..Len(values) : blocked_by_me[i] \/ blocked_by_others[i]}
        IN  /\ result.blocked = Cardinality(union)
            /\ result.visible = Len(values) - Cardinality(union)

\* C9: with at least one entry that neither mask blocks, min() is the smallest and
\* max() the largest value among the entries that neither mask blocks.
C9_MinMaxOverUnblocked ==
    (result.op \in {"min", "max"} /\ UnblockedEntries # {}) =>
        /\ result.status = Ok
        /\ \E i \in UnblockedEntries : values[i] = result.value
        /\ result.op = "min" => \A i \in UnblockedEntries : result.value <= values[i]
        /\ result.op = "max" => \A i \in UnblockedEntries : result.value >= values[i]

\* the smallest and the largest value are blocked, one by each mask
C9_Witness ==
    /\ result.op \in {"min", "max"}
    /\ values = <<1, 2, 3>>
    /\ blocked_by_me = <<TRUE, FALSE, FALSE>>
    /\ blocked_by_others = <<FALSE, FALSE, TRUE>>
    /\ result.value = 2

\* C10: when every entry is blocked by one mask or the other, min() and max() end
\* in the error of an empty selection, and leave the values and both masks as
\* they were.
C10_EmptySelection ==
    [][(rstatus = Ok /\ UnblockedEntries = {} /\ result'.op \in {"min", "max"}) =>
          /\ result'.status = ValueError
          /\ values' = values
          /\ blocked_by_me' = blocked_by_me
          /\ blocked_by_others' = blocked_by_others]_vars

\* max() has failed on a reading whose entries are all blocked, by different masks
C10_Witness ==
    /\ result.op = "max"
    /\ result.status = ValueError
    /\ Len(values) >= 2
    /\ \E i \in 1..Len(values) : blocked_by_me[i] /\ ~blocked_by_others[i]
    /\ \E i \in 1..Len(values) : ~blocked_by_me[i] /\ blocked_by_others[i]
\* the three arrays of the instance at hand have the same shape
SameShapes ==
    /\ rfield.values.shape = rfield.blocked_by_me.shape
    /\ rfield.values.shape = rfield.blocked_by_others.shape

\* the instance after the step is the instance before it indexed by one key,
\* with its name and unit
IndexedBySameKey ==
    \E key \in Keys :
        /\ ~IndexRaises(rfield.values, key)
        /\ ~IndexRaises(rfield.blocked_by_me, key)
        /\ ~IndexRaises(rfield.blocked_by_others, key)
        /\ rfield'.name = rfield.name
        /\ rfield'.unit = rfield.unit
        /\ rfield'.values = Index(rfield.values, key)
        /\ rfield'.blocked_by_me = Index(rfield.blocked_by_me, key)
        /\ rfield'.blocked_by_others = Index(rfield.blocked_by_others, key)

\* C11: every ReadingField instance (constructed directly, returned by an
\* accessor of a reading, or indexed out of another instance) has values,
\* blocked_by_me and blocked_by_others of the same shape, and __getitem__(key)
\* returns an instance whose three arrays are the receiver's indexed by key, with
\* the receiver's name and unit.
C11_FieldShapes ==
    /\ [](fstatus # "none" => SameShapes)
    /\ [][(fstatus # "none" /\ fstatus' = Ok) => IndexedBySameKey]_vars
\* the explicit lists equivalent to the centers and widths of the call:
\* open = center - width / 2 and close = center + width / 2, as float arrays
ExplicitOpen ==
    NdArray([i \in 1..Len(call.centers) |->
        AsFloat(call.centers[i]) - AsFloat(call.widths[i]) \div 2])
ExplicitClose ==
    NdArray([i \in 1..Len(call.centers) |->
        AsFloat(call.centers[i]) + AsFloat(call.widths[i]) \div 2])

\* the call gives a list of cutouts as centers and widths, with a frequency and a
\* direction that construction accepts
CentersWidthsCall ==
    /\ cstatus # "none"
    /\ call.frequency > 0
    /\ call.direction \in {Clockwise, AntiClockwise}
    /\ call.shapes[1] = -1 /\ call.shapes[2] = -1
    /\ call.shapes[3] >= 1
    /\ call.shapes[3] = call.shapes[4]

\* C12: a chopper constructed from centers and widths and the chopper
\* constructed from the equivalent explicit open and close lists, all else
\* equal, return the same open_close_times for every time_limit.  Stated here for
\* lists that are not empty; a float list given as open or close is stored as
\* it is, so that the second chopper has open = ExplicitOpen and
\* close = ExplicitClose once the check of its arguments lets it pass.
C12_RoundTrip ==
    CentersWidthsCall =>
        /\ T \in CutoutCheck(1, 2, NoneRef, NoneRef, <<ExplicitOpen, ExplicitClose>>)
        /\ cstatus = Ok
        /\ queried =>
              <<open_times, close_times>> =
                  OpenCloseTimes(Chopper(call.frequency, call.direction, phase,
                                         ExplicitOpen, ExplicitClose),
                                 time_limit)
\* the number of cutouts behind each output, and the angle of cutout c
\* (counted from 0) as listed for Clockwise, mirrored and reversed for
\* AntiClockwise
NOpen == IF direction = AntiClockwise THEN Len(close) ELSE Len(open)
NClose == IF direction = AntiClockwise THEN Len(open) ELSE Len(close)
OpenAngleAt(c) ==
    IF direction = AntiClockwise THEN AsFloat(FullTurn) - close[NOpen - c]
    ELSE open[c + 1]
CloseAngleAt(c) ==
    IF direction = AntiClockwise THEN AsFloat(FullTurn) - open[NClose - c]
    ELSE close[c + 1]

\* (k * 360 + phase + angle) / 360 / frequency * 1e6 microseconds, in time units
TimeAt(k, angle) ==
    ((k * AsFloat(FullTurn) + phase + angle) * FreqLcm) \div frequency

\* C13: each output of open_close_times is the row-major flattening of the
\* (rotation, cutout) grid, rotation slowest: with n cutouts it has
\* (nrot + 1) * n elements and the element at index r * n + c (r = 0..nrot,
\* c = 0..n-1) is the time (k * 360 + phase + angle_c) / 360 / frequency * 1e6
\* for k = r - 1, where angle_c is the c-th listed open (resp. close) angle for
\* Clockwise, and 360 - close_{n-1-c} (resp. 360 - open_{n-1-c}) for
\* AntiClockwise.
C13_RowMajorGrid ==
    queried =>
        LET nrot == Nrot(Self, time_limit)
        IN  /\ Len(open_times) = (nrot + 1) * NOpen
            /\ Len(close_times) = (nrot + 1) * NClose
            /\ \A r \in 0..nrot :
                  /\ \A c \in 0..(NOpen - 1) :
                        open_times[r * NOpen + c + 1] = TimeAt(r - 1, OpenAngleAt(c))
                  /\ \A c \in 0..(NClose - 1) :
                        close_times[r * NClose + c + 1] = TimeAt(r - 1, CloseAngleAt(c))

\* an anti-clockwise chopper with two different cutouts and a phase, queried
\* over more than one rotation
C13_Witness ==
    /\ queried
    /\ direction = AntiClockwise
    /\ Len(open) = 2 /\ Len(close) = 2
    /\ open[1] # open[2] /\ close[1] # close[2]
    /\ phase # 0
    /\ Nrot(Self, time_limit) >= 2
    /\ open_times[3] = TimeAt(0, AsFloat(FullTurn) - close[2])

====
